---------------------------- MODULE Spec2Model ----------------------------
(***************************************************************************)
(* A model of the MMB exporter of mm0-rs (src/mm0-rs/src/mmb/export.rs):   *)
(* the reorder map and the three sharing serializers, binder packing, the  *)
(* positioned writer with its fixup registry, the export pass `run` with   *)
(* `finish`, the index tree, and the BigBuffer adapter.                    *)
(*                                                                         *)
(* Heap slots, sort ids, term ids and output indices are 0-based as in the *)
(* source; TLA+ sequences are 1-based, so slot i of a heap is heap[i + 1]. *)
(***************************************************************************)
EXTENDS Integers, Sequences, FiniteSets, TLC

VARIABLES
  sIn,      \* serializers: the declaration being serialized
  sMode,    \* serializers: "input", or the serializer that has run
  sOut,     \* serializers: the serializer state after the call
  bBv,      \* write_binders: bv, the next bound variable's bit (u64, 8 bytes LE)
  bI,       \* write_binders: binders gone through
  bK,       \* write_binders: bound binders written
  bLast,    \* write_binders: the binder last gone through and the word written
  bState,   \* write_binders: "run", "done" (Ok) or "panic"
  env,      \* Exporter.env: sorts, terms, thms, stmts (the declaration trace)
  index,    \* the argument of run
  pc,       \* where run and finish are
  w,        \* Exporter.w: the bytes of the sink
  wcur,     \* Exporter.w: the position of the sink
  pos,      \* Exporter.pos
  fixups,   \* Exporter.fixups
  toks,     \* the fixup tokens of run: state, offset, size, and buffer if large
  ti,       \* run: the loop index over terms, theorems, statements
  vec,      \* run: the scratch buffer of the proof stream
  imap,     \* run: index_map
  fi,       \* finish: the loop index over fixups
  bbBuf,    \* BigBuffer.buffer: the bytes
  bbCur,    \* BigBuffer.buffer: the position of the cursor
  bbSink,   \* BigBuffer.w: the chunks it was given by write_all, in order
  bbState   \* BigBuffer: "live", "finished" (and destroyed) or "dropped"

serVars == <<sIn, sMode, sOut>>
bindVars == <<bBv, bI, bK, bLast, bState>>
runVars == <<env, index, pc, w, wcur, pos, fixups, toks, ti, vec, imap, fi>>
bufVars == <<bbBuf, bbCur, bbSink, bbState>>
vars == <<sIn, sMode, sOut, bBv, bI, bK, bLast, bState,
          env, index, pc, w, wcur, pos, fixups, toks, ti, vec, imap, fi,
          bbBuf, bbCur, bbSink, bbState>>

\* ------------------------------------------------------------------ bounds

\* Heap slots beyond the arguments in the expression heaps tried.
MaxSlots == 2
\* Arguments (preassigned heap slots) of the declarations tried.
MaxArgs == 1
\* Hypotheses of the theorems with a proof tried.
MaxHyps == 1

\* Binders of the declarations tried by the binder loop.
MaxBinders == 57
\* Sorts, terms and theorems of the environments exported.
MaxSorts == 1
MaxTerms == 1
MaxThms == 1
\* Sorts and terms of the environments whose index is built.
MaxIxSorts == 3
MaxIxTerms == 3
\* Bytes held by a BigBuffer.
MaxBuf == 3

\* --------------------------------------------------------------- utilities

Range(s) == {s[k] : k \in DOMAIN s}

\* Option<u32>: None is <<>>, Some(n) is <<n>>.
NoneV == <<>>
Some(n) == <<n>>

\* ------------------------------------------------------------ bytes, u64

\* A u64 is its eight bytes, least significant first (the integers of the
\* checker are narrower than 64 bits).
Zero64 == [k \in 1..8 |-> 0]
One64 == [k \in 1..8 |-> IF k = 1 THEN 1 ELSE 0]

\* n as `size` little-endian bytes (WriteBytesExt::write_u32::<LE>, write_u64::<LE>).
RECURSIVE LE(_, _)
LE(n, size) == IF size = 0 THEN <<>> ELSE <<n % 256>> \o LE(n \div 256, size - 1)

\* a | b on bytes.
RECURSIVE Or8(_, _, _)
Or8(a, b, bits) ==
  IF bits = 0 THEN 0
  ELSE (IF a % 2 = 1 \/ b % 2 = 1 THEN 1 ELSE 0)
         + 2 * Or8(a \div 2, b \div 2, bits - 1)

\* bv *= 2 (wrapping).
Dbl64(b) ==
  [k \in 1..8 |-> (2 * b[k] + (IF k > 1 /\ b[k - 1] >= 128 THEN 1 ELSE 0)) % 256]

\* bv >= (1 << 55)
Ge2p56(b) == b[8] > 0
Ge2p55(b) == b[8] > 0 \/ b[7] >= 128

\* ---------------------------------------------------------------- binders

\* Type::Bound(s) and Type::Reg(s, deps).
Bound(s) == [bound |-> TRUE, s |-> s, deps |-> Zero64]
Reg(s, deps) == [bound |-> FALSE, s |-> s, deps |-> deps]

\* write_sort_deps: u64::from(bound) << 63 | u64::from(sort.0) << 56 | deps
write_sort_deps(bound, sort, deps) ==
  [k \in 1..8 |->
     IF k < 8 THEN deps[k]
     ELSE Or8(Or8(IF bound THEN 128 ELSE 0, sort, 8), deps[8], 8)]

\* One turn of the loop of write_binders on a binder of type ty with the
\* running bit bv: the word written and the next bv, or the panic.
BinderStep(bv, ty) ==
  IF ty.bound
  THEN IF Ge2p55(bv) THEN [panic |-> TRUE, word |-> <<>>, bv |-> bv]
       ELSE [panic |-> FALSE, word |-> write_sort_deps(TRUE, ty.s, bv),
             bv |-> Dbl64(bv)]
  ELSE [panic |-> FALSE, word |-> write_sort_deps(FALSE, ty.s, ty.deps),
        bv |-> bv]

\* write_binders(args): the bytes written, and whether it panicked.
RECURSIVE WriteBindersFrom(_, _, _, _)
WriteBindersFrom(args, k, bv, out) ==
  IF k > Len(args) THEN [panic |-> FALSE, bytes |-> out]
  ELSE LET r == BinderStep(bv, args[k])
       IN  IF r.panic THEN [panic |-> TRUE, bytes |-> out]
           ELSE WriteBindersFrom(args, k + 1, r.bv, out \o r.word)

write_binders(args) == WriteBindersFrom(args, 1, One64, <<>>)

\* ------------------------------------------------------- expression nodes

\* ExprNode::Ref(i), ExprNode::Dummy(_, s), ExprNode::App(tid, es), and the
\* ProofNode variants, all as records of one shape: t the variant, a its
\* number (slot, sort, term or theorem id, hypothesis number), es its children.
Ref(i) == [t |-> "Ref", a |-> i, es |-> <<>>]
Dummy(s) == [t |-> "Dummy", a |-> s, es |-> <<>>]
App(tid, es) == [t |-> "App", a |-> tid, es |-> es]
\* ProofNode::Term {term, args}, Hyp(n, e), Thm {thm, args, res} (res kept as
\* the last child), Conv((e1, c, p)), Refl(e), Sym(c), Cong {args},
\* Unfold {res: (l, l2, c)}.
PTerm(term, args) == [t |-> "Term", a |-> term, es |-> args]
PHyp(n, e) == [t |-> "Hyp", a |-> n, es |-> <<e>>]
PThm(thm, args, res) == [t |-> "Thm", a |-> thm, es |-> Append(args, res)]
PConv(e1, c, p) == [t |-> "Conv", a |-> 0, es |-> <<e1, c, p>>]
PRefl(e) == [t |-> "Refl", a |-> 0, es |-> <<e>>]
PSym(c) == [t |-> "Sym", a |-> 0, es |-> <<c>>]
PCong(args) == [t |-> "Cong", a |-> 0, es |-> args]
PUnfold(l, l2, c) == [t |-> "Unfold", a |-> 0, es |-> <<l, l2, c>>]

\* A command of the unify or proof stream: its opcode, its number, its save flag.
Cmd(c, n, save) == [c |-> c, n |-> n, save |-> save]

\* ---------------------------------------------------------------- Reorder

\* Reorder::new(nargs, len, |i| i): slots 0..nargs-1 preassigned to themselves.
ReorderNew(nargs, len) ==
  [map |-> [i \in 1..len |-> IF i <= nargs THEN Some(i - 1) ELSE NoneV],
   idx |-> nargs]

\* The state a serializer threads through its recursion: the reorder map and
\* counter, the command stream written so far, the unify accumulator `save`,
\* the value returned by the last call, the indices `hyps` given to the
\* hypotheses of a theorem, whether an unreachable!() was reached, and two histories: `given`, the
\* indices taken from idx in order, and `ev`, what happened at each Ref site
\* ("visit": the slot was unassigned and is expanded; "inline": unassigned
\* conversion slot walked without assignment; "bind": map[i] := n;
\* "ref": a reference opcode for n written as command number `at`).
SerInit(nargs, len) ==
  [map |-> ReorderNew(nargs, len).map, idx |-> ReorderNew(nargs, len).idx,
   out |-> <<>>, save |-> <<>>, ret |-> 0, hyps |-> <<>>, panic |-> FALSE,
   given |-> <<>>, ev |-> <<>>]

Ev(k, i, n, at) == [k |-> k, i |-> i, n |-> n, at |-> at]

Emit(st, cmd) == [st EXCEPT !.out = Append(@, cmd)]

\* (reorder.idx, reorder.idx += 1).0
TakeIdxTwice(st) == [st EXCEPT !.ret = st.idx, !.given = Append(@, st.idx)]
TakeIdx(st) ==
  [st EXCEPT !.ret = st.idx, !.idx = @ + 1, !.given = Append(@, st.idx)]

\* reorder.map[i] = Some(n)
SetMapForgotten(st, i, n) == st
SetMap(st, i, n) ==
  [st EXCEPT !.map[i + 1] = Some(n), !.ev = Append(@, Ev("bind", i, n, 0))]

\* ------------------------------------------------------- write_expr_proof

\* The save argument of the call that expands the target of an unassigned
\* Ref: write_expr_proof(w, heap, reorder, &heap[i], true).
RefSaveOff == FALSE
RefSave == TRUE

RECURSIVE write_expr_proof(_, _, _, _)
RECURSIVE write_expr_proof_all(_, _, _, _)

\* for e in es {write_expr_proof(w, heap, reorder, e, false)?;}
write_expr_proof_all(st, heap, es, k) ==
  IF k > Len(es) THEN st
  ELSE write_expr_proof_all(write_expr_proof(st, heap, es[k], FALSE),
                            heap, es, k + 1)

write_expr_proof(st, heap, node, save) ==
  CASE node.t = "Ref" ->
         IF st.map[node.a + 1] = NoneV
         THEN LET s1 == [st EXCEPT !.ev = Append(@, Ev("visit", node.a, 0, 0))]
                  r == write_expr_proof(s1, heap, heap[node.a + 1], RefSave)
              IN  [SetMap(r, node.a, r.ret) EXCEPT !.ret = r.ret]
         ELSE LET n == st.map[node.a + 1][1]
                  s1 == Emit(st, Cmd("Ref", n, FALSE))
              IN  [s1 EXCEPT !.ret = n,
                             !.ev = Append(@, Ev("ref", node.a, n, Len(s1.out)))]
    [] node.t = "Dummy" ->
         TakeIdx(Emit(st, Cmd("Dummy", node.a, FALSE)))
    [] node.t = "App" ->
         LET s1 == write_expr_proof_all(st, heap, node.es, 1)
             s2 == Emit(s1, Cmd("Term", node.a, save))
         IN  IF save THEN TakeIdx(s2) ELSE [s2 EXCEPT !.ret = 0]

\* ------------------------------------------------------- write_expr_unify

\* commit!(n): for i in save.drain(..) {reorder.map[i] = Some(n)}
RECURSIVE CommitFrom(_, _, _)
CommitFrom(st, n, k) ==
  IF k > Len(st.save) THEN [st EXCEPT !.save = <<>>]
  ELSE CommitFrom(SetMap(st, st.save[k], n), n, k + 1)

CommitKept(st, n) == [CommitFrom(st, n, 1) EXCEPT !.save = st.save]
Commit(st, n) == CommitFrom(st, n, 1)

RECURSIVE write_expr_unify(_, _, _)
RECURSIVE write_expr_unify_all(_, _, _, _)

write_expr_unify_all(st, heap, es, k) ==
  IF k > Len(es) THEN st
  ELSE write_expr_unify_all(write_expr_unify(st, heap, es[k]), heap, es, k + 1)

write_expr_unify(st, heap, node) ==
  CASE node.t = "Ref" ->
         IF st.map[node.a + 1] = NoneV
         THEN write_expr_unify(
                [st EXCEPT !.save = Append(@, node.a),
                           !.ev = Append(@, Ev("visit", node.a, 0, 0))],
                heap, heap[node.a + 1])
         ELSE LET n == st.map[node.a + 1][1]
                  s1 == Emit(st, Cmd("Ref", n, FALSE))
              IN  Commit([s1 EXCEPT !.ev =
                            Append(@, Ev("ref", node.a, n, Len(s1.out)))], n)
    [] node.t = "Dummy" ->
         LET s1 == Commit(st, st.idx)
         IN  Emit(TakeIdx(s1), Cmd("Dummy", node.a, FALSE))
    [] node.t = "App" ->
         LET s1 == IF st.save = <<>>
                   THEN Emit(st, Cmd("Term", node.a, FALSE))
                   ELSE Emit(TakeIdx(Commit(st, st.idx)),
                             Cmd("Term", node.a, TRUE))
         IN  write_expr_unify_all(s1, heap, node.es, 1)


\* ------------------------------------------------ write_proof, write_conv

\* `ta` is the environment's view used here: ta[thm + 1] = env.thm(thm).args.len().
RECURSIVE write_proof(_, _, _, _, _)
RECURSIVE write_proof_all(_, _, _, _, _)
RECURSIVE write_conv(_, _, _, _)
RECURSIVE write_conv_all(_, _, _, _, _)

\* for e in es {self.write_proof(w, heap, reorder, hyps, e, false)?;}
write_proof_all(st, ta, heap, es, k) ==
  IF k > Len(es) THEN st
  ELSE write_proof_all(write_proof(st, ta, heap, es[k], FALSE),
                       ta, heap, es, k + 1)

\* for a in &**args {self.write_conv(w, heap, reorder, hyps, a)?}
write_conv_all(st, ta, heap, es, k) ==
  IF k > Len(es) THEN st
  ELSE write_conv_all(write_conv(st, ta, heap, es[k]), ta, heap, es, k + 1)

\* ProofNode::Refl(_) | ProofNode::Ref(_): the targets write_conv walks in
\* place instead of cutting and saving.
ConvInlineNever(e) == FALSE
ConvInline(e) == e.t \in {"Refl", "Ref"}

write_proof(st, ta, heap, node, save) ==
  CASE node.t = "Ref" ->
         IF st.map[node.a + 1] = NoneV
         THEN LET s1 == [st EXCEPT !.ev = Append(@, Ev("visit", node.a, 0, 0))]
                  r == write_proof(s1, ta, heap, heap[node.a + 1], RefSave)
              IN  [SetMap(r, node.a, r.ret) EXCEPT !.ret = r.ret]
         ELSE LET n == st.map[node.a + 1][1]
                  s1 == Emit(st, Cmd("Ref", n, FALSE))
              IN  [s1 EXCEPT !.ret = n,
                             !.ev = Append(@, Ev("ref", node.a, n, Len(s1.out)))]
    [] node.t = "Dummy" ->
         TakeIdx(Emit(st, Cmd("Dummy", node.a, FALSE)))
    [] node.t = "Term" ->
         LET s1 == write_proof_all(st, ta, heap, node.es, 1)
             s2 == Emit(s1, Cmd("Term", node.a, save))
         IN  IF save THEN TakeIdx(s2) ELSE [s2 EXCEPT !.ret = 0]
    [] node.t = "Hyp" ->
         [Emit(st, Cmd("Ref", st.hyps[node.a + 1], FALSE))
            EXCEPT !.ret = st.hyps[node.a + 1]]
    [] node.t = "Thm" ->
         LET all == SubSeq(node.es, 1, Len(node.es) - 1)
             na == ta[node.a + 1]
             args == SubSeq(all, 1, na)
             hs == SubSeq(all, na + 1, Len(all))
             s1 == write_proof_all(st, ta, heap, hs, 1)
             s2 == write_proof_all(s1, ta, heap, args, 1)
             s3 == write_proof(s2, ta, heap, node.es[Len(node.es)], FALSE)
             s4 == Emit(s3, Cmd("Thm", node.a, save))
         IN  IF save THEN TakeIdx(s4) ELSE [s4 EXCEPT !.ret = 0]
    [] node.t = "Conv" ->
         LET s1 == write_proof(st, ta, heap, node.es[1], FALSE)
             s2 == write_proof(s1, ta, heap, node.es[3], FALSE)
             s3 == Emit(s2, Cmd("Conv", 0, FALSE))
             s4 == write_conv(s3, ta, heap, node.es[2])
         IN  IF save THEN TakeIdx(Emit(s4, Cmd("Save", 0, FALSE)))
             ELSE [s4 EXCEPT !.ret = 0]
    [] OTHER -> [st EXCEPT !.panic = TRUE]

write_conv(st, ta, heap, node) ==
  CASE node.t = "Ref" ->
         IF st.map[node.a + 1] = NoneV
         THEN LET e == heap[node.a + 1]
              IN  IF ConvInline(e)
                  THEN write_conv(
                         [st EXCEPT !.ev = Append(@, Ev("inline", node.a, 0, 0))],
                         ta, heap, e)
                  ELSE LET s1 == Emit([st EXCEPT !.ev =
                                         Append(@, Ev("visit", node.a, 0, 0))],
                                      Cmd("ConvCut", 0, FALSE))
                           s2 == write_conv(s1, ta, heap, e)
                           s3 == TakeIdx(Emit(s2, Cmd("ConvSave", 0, FALSE)))
                       IN  SetMap(s3, node.a, s3.ret)
         ELSE LET n == st.map[node.a + 1][1]
                  s1 == Emit(st, Cmd("ConvRef", n, FALSE))
              IN  [s1 EXCEPT !.ev = Append(@, Ev("ref", node.a, n, Len(s1.out)))]
    [] node.t = "Refl" -> Emit(st, Cmd("Refl", 0, FALSE))
    [] node.t = "Sym" ->
         write_conv(Emit(st, Cmd("Sym", 0, FALSE)), ta, heap, node.es[1])
    [] node.t = "Cong" ->
         write_conv_all(Emit(st, Cmd("Cong", 0, FALSE)), ta, heap, node.es, 1)
    [] node.t = "Unfold" ->
         LET s1 == write_proof(st, ta, heap, node.es[1], FALSE)
             s2 == write_proof(s1, ta, heap, node.es[2], FALSE)
         IN  write_conv(Emit(s2, Cmd("Unfold", 0, FALSE)), ta, heap, node.es[3])
    [] OTHER -> [st EXCEPT !.panic = TRUE]

\* ------------------------------------------------------------ declarations

\* Expr {heap, head} of a definition, or heap, hyps and ret of a theorem
\* statement, with the number of arguments of the declaration.
Decl(kind, nargs, heap, hyps, head) ==
  [kind |-> kind, nargs |-> nargs, heap |-> heap, hyps |-> hyps, head |-> head]

\* run, term table: the unifier of a definition.
TermUnify(d) ==
  write_expr_unify(SerInit(d.nargs, Len(d.heap)), d.heap, d.head)

\* run, proof stream: the body of a definition.
DefBody(d) ==
  write_expr_proof(SerInit(d.nargs, Len(d.heap)), d.heap, d.head, FALSE)

\* run, theorem table: the unifier of a theorem statement, the conclusion
\* first and then the hypotheses from the last to the first, over one
\* accumulator.
RECURSIVE ThmUnifyHyps(_, _, _)
ThmUnifyHyps(st, d, k) ==
  IF k < 1 THEN st
  ELSE ThmUnifyHyps(
         write_expr_unify(Emit(st, Cmd("Hyp", 0, FALSE)), d.heap, d.hyps[k]),
         d, k - 1)

ThmUnify(d) ==
  ThmUnifyHyps(write_expr_unify(SerInit(d.nargs, Len(d.heap)), d.heap, d.head),
               d, Len(d.hyps))

\* run, proof stream: the body of an axiom.
RECURSIVE AxiomHyps(_, _, _)
AxiomHyps(st, d, k) ==
  IF k > Len(d.hyps) THEN st
  ELSE AxiomHyps(
         Emit(write_expr_proof(st, d.heap, d.hyps[k], FALSE), Cmd("Hyp", 0, FALSE)),
         d, k + 1)

AxiomBody(d) ==
  write_expr_proof(AxiomHyps(SerInit(d.nargs, Len(d.heap)), d, 1),
                   d.heap, d.head, FALSE)

\* ProofNode::deref: a Ref stands for the slot it names.
Deref(node, heap) == IF node.t = "Ref" THEN heap[node.a + 1] ELSE node

\* run, proof stream: the body of a theorem with a proof; each hypothesis
\* takes the next index, kept in ehyps.
RECURSIVE ThmHyps(_, _, _, _)
ThmHyps(st, ta, d, k) ==
  IF k > Len(d.hyps) THEN st
  ELSE LET h == Deref(d.hyps[k], d.heap)
       IN  IF h.t # "Hyp" THEN [st EXCEPT !.panic = TRUE]
           ELSE LET s1 == write_proof(st, ta, d.heap, h.es[1], FALSE)
                    s2 == TakeIdx(Emit(s1, Cmd("Hyp", 0, FALSE)))
                IN  ThmHyps([s2 EXCEPT !.hyps = Append(@, s2.ret)], ta, d, k + 1)

ThmBody(d, ta) ==
  write_proof(ThmHyps(SerInit(d.nargs, Len(d.heap)), ta, d, 1),
              ta, d.heap, d.head, FALSE)

\* ---------------------------------------------------- serializer inputs

Refs(i) == {Ref(j) : j \in 0..(i - 1)}
Near(i) == {Ref(j) : j \in (IF i > 1 THEN i - 2 ELSE 0)..(i - 1)}
Leaves(i) == Refs(i) \cup {Dummy(0), App(0, <<>>)}

\* The nodes tried in slot i of a heap: a dummy, a constant, an alias of the
\* slot below, and applications to the one or two slots below.
SlotNodes(i) ==
  {Dummy(0), App(0, <<>>)}
    \cup (IF i = 0 THEN {}
          ELSE {Ref(i - 1), App(1, <<Ref(i - 1)>>)}
                 \cup {App(2, <<Ref(i - 1), x>>) : x \in Near(i)})

\* The heads tried over a heap of i slots.
HeadNodes(i) ==
  Refs(i) \cup {App(1, <<x>>) : x \in Leaves(i)}
          \cup {App(2, <<x, y>>) : x \in Refs(i), y \in Refs(i)}

\* The hypothesis lists tried for a theorem statement over a heap of i slots.
HypLists(i) ==
  {<<>>} \cup (IF i = 0 THEN {<<App(0, <<>>)>>}
               ELSE {<<Ref(i - 1)>>, <<App(1, <<Ref(i - 1)>>), Ref(i - 1)>>})

\* The heaps of nargs arguments and len slots in all, topologically ordered:
\* slot i refers to slots below i only.
RECURSIVE ExprHeaps(_, _)
ExprHeaps(nargs, len) ==
  IF len <= nargs THEN {[i \in 1..nargs |-> Ref(i - 1)]}
  ELSE {Append(h, x) : h \in ExprHeaps(nargs, len - 1), x \in SlotNodes(len - 1)}

\* What a node of a proof heap is: an expression "e", a proof "p" or a
\* conversion "c"; a Ref is what its slot is, and an argument is an expression.
RECURSIVE KindOf(_, _, _)
KindOf(nargs, heap, node) ==
  CASE node.t = "Ref" ->
         IF node.a < nargs THEN "e" ELSE KindOf(nargs, heap, heap[node.a + 1])
    [] node.t \in {"Dummy", "Term"} -> "e"
    [] node.t \in {"Hyp", "Thm", "Conv"} -> "p"
    [] OTHER -> "c"

\* The reference to the highest slot of kind k, if there is one.
LastOf(nargs, heap, k) ==
  LET js == {j \in 0..(Len(heap) - 1) : KindOf(nargs, heap, Ref(j)) = k}
  IN  IF js = {} THEN {} ELSE {Ref(CHOOSE j \in js : \A l \in js : l <= j)}

T0 == PTerm(0, <<>>)
Thm0 == PThm(0, <<>>, T0)
\* env.thm(t).args.len() of the theorems the proofs tried refer to: theorem 0
\* has no argument and no hypothesis, theorem 1 one of each.
SerThmArgs == <<0, 1>>

ExprOps(nargs, heap) == LastOf(nargs, heap, "e") \cup {T0}
ProofOps(nargs, heap) == LastOf(nargs, heap, "p") \cup {Thm0}
ConvOps(nargs, heap) == LastOf(nargs, heap, "c") \cup {PRefl(T0)}

\* The nodes tried in the next slot of a proof heap.
ProofSlotNodes(nargs, heap) ==
  {Dummy(0)}
    \cup {PTerm(1, <<e>>) : e \in ExprOps(nargs, heap)}
    \cup {PRefl(T0)}
    \cup {PSym(c) : c \in ConvOps(nargs, heap)}
    \cup LastOf(nargs, heap, "c")
    \cup {PCong(<<c, c>>) : c \in LastOf(nargs, heap, "c")}
    \cup {PUnfold(e, e, c) : e \in LastOf(nargs, heap, "e"),
                             c \in ConvOps(nargs, heap)}
    \cup {PThm(1, <<e, p>>, T0) : e \in ExprOps(nargs, heap),
                                  p \in ProofOps(nargs, heap)}
    \cup {PConv(T0, c, Thm0) : c \in ConvOps(nargs, heap)}

\* The heads tried over a proof heap: a proof.
ProofHeads(nargs, heap) ==
  LastOf(nargs, heap, "p")
    \cup {PThm(1, <<e, p>>, e) : e \in ExprOps(nargs, heap),
                                 p \in ProofOps(nargs, heap)}
    \cup {PConv(e, c, p) : e \in LastOf(nargs, heap, "e"),
                           c \in LastOf(nargs, heap, "c"),
                           p \in LastOf(nargs, heap, "p")}
    \cup {PConv(T0, PCong(<<c, PSym(c)>>), p) :
            c \in LastOf(nargs, heap, "c"), p \in ProofOps(nargs, heap)}

\* The proof heaps of nargs arguments, nh hypotheses (held in the slots after
\* the arguments) and k further slots.
RECURSIVE ProofHeaps(_, _, _)
ProofHeaps(nargs, nh, k) ==
  IF k = 0
  THEN {[i \in 1..(nargs + nh) |->
           IF i <= nargs THEN Ref(i - 1)
           ELSE PHyp(i - nargs - 1, IF i = nargs + 1 THEN T0
                                    ELSE PTerm(1, <<T0>>))]}
  ELSE UNION {{Append(h, x) : x \in ProofSlotNodes(nargs, h)}
                : h \in ProofHeaps(nargs, nh, k - 1)}

\* ------------------------------------------------------------ wire codec

\* MM0B_MAGIC and MM0B_VERSION.
Magic == <<77, 77, 48, 66>>
Version == <<1>>

\* The opcode of a command of the unify stream and of the proof stream.
UnifyOp(cmd) ==
  CASE cmd.c = "Term" -> IF cmd.save THEN 49 ELSE 48
    [] cmd.c = "Ref" -> 50
    [] cmd.c = "Dummy" -> 51
    [] cmd.c = "Hyp" -> 54

ProofOp(cmd) ==
  CASE cmd.c = "Term" -> IF cmd.save THEN 17 ELSE 16
    [] cmd.c = "Ref" -> 18
    [] cmd.c = "Dummy" -> 19
    [] cmd.c = "Thm" -> IF cmd.save THEN 21 ELSE 20
    [] cmd.c = "Hyp" -> 22
    [] cmd.c = "Conv" -> 23
    [] cmd.c = "Refl" -> 24
    [] cmd.c = "Sym" -> 25
    [] cmd.c = "Cong" -> 26
    [] cmd.c = "Unfold" -> 27
    [] cmd.c = "ConvCut" -> 28
    [] cmd.c = "ConvRef" -> 29
    [] cmd.c = "ConvSave" -> 30
    [] cmd.c = "Save" -> 31

\* STMT_SORT, STMT_TERM, STMT_DEF, STMT_AXIOM, STMT_THM, each with STMT_LOCAL or not.
StmtOp(k, local) ==
  (CASE k = "Sort" -> 4 [] k = "Term" -> 5 [] k = "Def" -> 5
     [] k = "Axiom" -> 2 [] k = "Thm" -> 6)
    + (IF local THEN 8 ELSE 0)

\* write_cmd: the opcode alone for data 0, else with DATA_8 or DATA_16 and the data.
WriteCmd(op, data) ==
  IF data = 0 THEN <<op>>
  ELSE IF data < 256 THEN <<op + 64, data>>
  ELSE <<op + 128>> \o LE(data, 2)

\* The bytes of a command stream.
RECURSIVE UnifyBytes(_)
UnifyBytes(cmds) ==
  IF cmds = <<>> THEN <<>>
  ELSE WriteCmd(UnifyOp(Head(cmds)), Head(cmds).n) \o UnifyBytes(Tail(cmds))

RECURSIVE ProofBytes(_)
ProofBytes(cmds) ==
  IF cmds = <<>> THEN <<>>
  ELSE WriteCmd(ProofOp(Head(cmds)), Head(cmds).n) \o ProofBytes(Tail(cmds))

\* write_cmd_bytes: the command byte, the length of the whole record, the data.
write_cmd_bytes(cmd, buf) ==
  IF Len(buf) + 2 < 256 THEN <<cmd + 64, Len(buf) + 2>> \o buf
  ELSE <<cmd + 128>> \o LE(Len(buf) + 3, 2) \o buf

\* ---------------------------------------------------------- environments

\* The name of atom a: the names are not in the order of the atoms.
AtomName(a) ==
  CASE a = 0 -> <<109>> [] a = 1 -> <<97>> [] a = 2 -> <<122>>
    [] a = 3 -> <<97, 98>> [] a = 4 -> <<107>> [] OTHER -> <<98, a>>

\* The terms tried: a constant; a term with a bound and a regular binder; a
\* definition without arguments; a local definition with one argument and a
\* shared subterm.
TermShape(k) ==
  CASE k = 1 -> [args |-> <<>>, ret |-> Reg(0, Zero64), def |-> FALSE,
                 local |-> FALSE, val |-> Decl("def", 0, <<>>, <<>>, Dummy(0))]
    [] k = 2 -> [args |-> <<Bound(0), Reg(0, One64)>>, ret |-> Reg(0, One64),
                 def |-> FALSE, local |-> FALSE,
                 val |-> Decl("def", 0, <<>>, <<>>, Dummy(0))]
    [] k = 3 -> [args |-> <<>>, ret |-> Reg(0, Zero64), def |-> TRUE,
                 local |-> FALSE,
                 val |-> Decl("def", 0, <<>>, <<>>, App(0, <<>>))]
    [] k = 4 -> [args |-> <<Bound(0)>>, ret |-> Reg(0, One64), def |-> TRUE,
                 local |-> TRUE,
                 val |-> Decl("def", 1, <<Ref(0), App(1, <<Ref(0)>>)>>, <<>>,
                              App(2, <<Ref(1), Ref(1)>>))]
TermShapes == 1..4

\* The theorems tried: an axiom without arguments; an axiom with an argument
\* and a hypothesis sharing a subterm with the conclusion; a public theorem
\* proved from its hypothesis through a conversion; a local theorem.
ThmShape(k) ==
  CASE k = 1 -> [args |-> <<>>, axiom |-> TRUE, pub |-> TRUE,
                 stmt |-> Decl("stmt", 0, <<>>, <<>>, App(0, <<>>)),
                 proof |-> Decl("proof", 0, <<>>, <<>>, Dummy(0))]
    [] k = 2 -> [args |-> <<Reg(0, Zero64)>>, axiom |-> TRUE, pub |-> TRUE,
                 stmt |-> Decl("stmt", 1, <<Ref(0), App(1, <<Ref(0)>>)>>,
                               <<Ref(1)>>, Ref(1)),
                 proof |-> Decl("proof", 0, <<>>, <<>>, Dummy(0))]
    [] k = 3 -> [args |-> <<Bound(0)>>, axiom |-> FALSE, pub |-> TRUE,
                 stmt |-> Decl("stmt", 1, <<Ref(0), App(1, <<Ref(0)>>)>>,
                               <<Ref(1)>>, Ref(1)),
                 proof |-> Decl("proof", 1,
                                <<Ref(0), PTerm(1, <<Ref(0)>>), PHyp(0, Ref(1)),
                                  PSym(PRefl(Ref(1)))>>,
                                <<Ref(2)>>,
                                PConv(Ref(1), PCong(<<Ref(3), Ref(3)>>), Ref(2)))]
    [] k = 4 -> [args |-> <<>>, axiom |-> FALSE, pub |-> FALSE,
                 stmt |-> Decl("stmt", 0, <<>>, <<>>, App(0, <<>>)),
                 proof |-> Decl("proof", 0, <<PTerm(0, <<>>)>>, <<>>,
                                PConv(Ref(0), PRefl(Ref(0)), Ref(0)))]
ThmShapes == 1..4

\* The environment of ns sorts, the terms tks and the theorems hks (shapes);
\* the first `share` declarations have the names of the first sorts; with
\* `extra` the trace also holds a Global and an OutputString entry, and the
\* spans of the declarations lie in the source text of the exported file.
\* The trace lists the sorts, then the terms, then the theorems.
MkEnv(ns, tks, hks, share, extra) ==
  LET nt == Len(tks)
      nh == Len(hks)
      datom(j) == IF j <= share THEN j - 1 ELSE ns + j - 1
      sorts == [i \in 1..ns |-> [atom |-> i - 1, mods |-> i]]
      terms == [i \in 1..nt |-> [atom |-> datom(i)] @@ TermShape(tks[i])]
      thms == [i \in 1..nh |-> [atom |-> datom(nt + i)] @@ ThmShape(hks[i])]
      tr == [i \in 1..ns |-> [k |-> "Sort", a |-> i - 1]]
              \o (IF extra THEN <<[k |-> "Global", a |-> 0]>> ELSE <<>>)
              \o [i \in 1..nt |-> [k |-> "Decl", a |-> datom(i)]]
              \o (IF extra THEN <<[k |-> "OutputString", a |-> 0]>> ELSE <<>>)
              \o [i \in 1..nh |-> [k |-> "Decl", a |-> datom(nt + i)]]
  IN  [sorts |-> sorts, terms |-> terms, thms |-> thms, stmts |-> tr,
       source |-> extra]

\* self.env.data()[a].sort() and .decl(): the ids behind an atom.
SortOfAtom(e, a) == CHOOSE i \in 1..Len(e.sorts) : e.sorts[i].atom = a
IsTermAtom(e, a) == \E i \in 1..Len(e.terms) : e.terms[i].atom = a
TermOfAtom(e, a) == CHOOSE i \in 1..Len(e.terms) : e.terms[i].atom = a
ThmOfAtom(e, a) == CHOOSE i \in 1..Len(e.thms) : e.thms[i].atom = a

\* env.thm(t).args.len() for every theorem.
ThmArgs(e) == [i \in 1..Len(e.thms) |-> Len(e.thms[i].args)]

\* ------------------------------------------------ positioned writer, fixups

Zeros(n) == [k \in 1..n |-> 0]

\* write_all on a seekable sink at position cur: overwrite, and extend at the end.
SinkWrite(data, cur, bytes) ==
  [k \in 1..(IF cur + Len(bytes) > Len(data) THEN cur + Len(bytes) ELSE Len(data)) |->
     IF k > cur /\ k <= cur + Len(bytes) THEN bytes[k - cur]
     ELSE IF k <= Len(data) THEN data[k] ELSE 0]

\* a & b on bytes.
RECURSIVE And8(_, _, _)
And8(a, b, bits) ==
  IF bits = 0 THEN 0
  ELSE (IF a % 2 = 1 /\ b % 2 = 1 THEN 1 ELSE 0)
         + 2 * And8(a \div 2, b \div 2, bits - 1)

\* align_to(n): the number of zero bytes written,
\* n.wrapping_sub(self.pos as u8) & (n - 1).
NoPadding(p, n) == 0
AlignPad(p, n) == And8((n + 256 - (p % 256)) % 256, n - 1, 8)

\* fixup32, fixup64, fixup_large: the zero bytes written at the token's offset.
FixupShort(size) == Zeros(IF size >= 8 THEN size - 4 ELSE size)
FixupZeros(size) == Zeros(size)

\* A token: "none" before it is allocated, then "open", then "done"
\* (committed) or "cancelled".
Tok(st, p, size, buf) == [st |-> st, pos |-> p, size |-> size, buf |-> buf]
TokNames ==
  {"p_terms", "p_thms", "p_proof", "p_index",
   "term_header", "thm_header", "index_header"}
NoToks == [n \in TokNames |-> Tok("none", 0, 0, <<>>)]

\* commit_val: e.fixups.push((self.0, value))
CommitDropped(fx, name, p, val) == fx
CommitVal(fx, name, p, val) == Append(fx, [tok |-> name, pos |-> p, val |-> val])

\* write_term_header and write_thm_header on the 8 bytes of a table slot.
write_term_header(nargs, sort, has_def, p_term) ==
  LE(nargs, 2) \o <<Or8(sort, IF has_def THEN 128 ELSE 0, 8), 0>> \o LE(p_term, 4)
write_thm_header(nargs, p_thm) == LE(nargs, 2) \o <<0, 0>> \o LE(p_thm, 4)

\* head[..] = ...: slot i (from 0) of a table buffer replaced.
SetSlot(buf, i, bytes) ==
  [k \in 1..Len(buf) |-> IF k > 8 * i /\ k <= 8 * i + 8 THEN bytes[k - 8 * i] ELSE buf[k]]

\* ------------------------------------------------------------------- run

\* self.write_u8(0) after a unifier.
UnifyEndMissing == <<>>
UnifyEnd == <<0>>

\* The block of term t after its aligned start: the binder words, the
\* return-type word and, for a definition, the unifier and a 0.
TermBlock(t) ==
  write_binders(t.args).bytes
    \o write_sort_deps(FALSE, t.ret.s, t.ret.deps)
    \o (IF t.def THEN UnifyBytes(TermUnify(t.val).out) \o UnifyEnd ELSE <<>>)

\* The block of theorem t: the binder words, the unifier and a 0.
ThmBlock(t) ==
  write_binders(t.args).bytes \o UnifyBytes(ThmUnify(t.stmt).out) \o UnifyEnd

\* vec.clear()
VecKept(v) == v
VecClear(v) == <<>>

\* The header, the sort data, and the start of the term table.
RunHeader ==
  /\ pc = "start"
  /\ LET ns == Len(env.sorts)
         nt == Len(env.terms)
         head == Magic \o Version \o <<ns, 0, 0>> \o LE(nt, 4)
                   \o LE(Len(env.thms), 4)
         p1 == Len(head)
         f1 == head \o FixupZeros(4)
         p2 == Len(f1)
         f2 == f1 \o FixupZeros(4)
         p3 == Len(f2)
         f3 == f2 \o FixupZeros(8)
         p4 == Len(f3)
         f4 == f3 \o FixupZeros(8)
         sd == f4 \o [i \in 1..ns |-> env.sorts[i].mods]
         al == sd \o Zeros(AlignPad(Len(sd), 8))
         th == al \o FixupZeros(nt * 8)
     IN  /\ w' = SinkWrite(w, wcur, th)
         /\ wcur' = wcur + Len(th)
         /\ pos' = pos + Len(th)
         /\ fixups' = CommitVal(fixups, "p_terms", p1, LE(Len(al), 4))
         /\ toks' = [toks EXCEPT
                       !["p_terms"] = Tok("done", p1, 4, <<>>),
                       !["p_thms"] = Tok("open", p2, 4, <<>>),
                       !["p_proof"] = Tok("open", p3, 8, <<>>),
                       !["p_index"] = Tok("open", p4, 8, <<>>),
                       !["term_header"] = Tok("open", Len(al), nt * 8, Zeros(nt * 8))]
  /\ pc' = "terms"
  /\ UNCHANGED <<env, index, ti, vec, imap, fi>>

\* One turn of the loop over the terms.
RunTerm ==
  /\ pc = "terms" /\ ti < Len(env.terms)
  /\ LET t == env.terms[ti + 1]
         pad == Zeros(AlignPad(pos, 8))
         addr == pos + Len(pad)
         out == pad \o TermBlock(t)
     IN  /\ toks' = [toks EXCEPT !["term_header"].buf =
                       SetSlot(@, ti, write_term_header(Len(t.args), t.ret.s,
                                                        t.def, addr))]
         /\ w' = SinkWrite(w, wcur, out)
         /\ wcur' = wcur + Len(out)
         /\ pos' = pos + Len(out)
         /\ pc' = IF write_binders(t.args).panic THEN "panic" ELSE "terms"
  /\ ti' = ti + 1
  /\ UNCHANGED <<env, index, fixups, vec, imap, fi>>

\* The end of the term table and the start of the theorem table.
RunTermsDone ==
  /\ pc = "terms" /\ ti = Len(env.terms)
  /\ LET pad == Zeros(AlignPad(pos, 8))
         at == pos + Len(pad)
         size == Len(env.thms) * 8
         out == pad \o FixupZeros(size)
     IN  /\ fixups' = CommitVal(
                        CommitVal(fixups, "term_header", toks["term_header"].pos,
                                  toks["term_header"].buf),
                        "p_thms", toks["p_thms"].pos, LE(at, 4))
         /\ toks' = [toks EXCEPT !["term_header"].st = "done",
                                 !["p_thms"].st = "done",
                                 !["thm_header"] = Tok("open", at, size, Zeros(size))]
         /\ w' = SinkWrite(w, wcur, out)
         /\ wcur' = wcur + Len(out)
         /\ pos' = pos + Len(out)
  /\ pc' = "thms"
  /\ ti' = 0
  /\ UNCHANGED <<env, index, vec, imap, fi>>

\* One turn of the loop over the theorems.
RunThm ==
  /\ pc = "thms" /\ ti < Len(env.thms)
  /\ LET t == env.thms[ti + 1]
         pad == Zeros(AlignPad(pos, 8))
         addr == pos + Len(pad)
         out == pad \o ThmBlock(t)
     IN  /\ toks' = [toks EXCEPT !["thm_header"].buf =
                       SetSlot(@, ti, write_thm_header(Len(t.args), addr))]
         /\ w' = SinkWrite(w, wcur, out)
         /\ wcur' = wcur + Len(out)
         /\ pos' = pos + Len(out)
         /\ pc' = IF write_binders(t.args).panic THEN "panic" ELSE "thms"
  /\ ti' = ti + 1
  /\ UNCHANGED <<env, index, fixups, vec, imap, fi>>

\* The end of the theorem table and the start of the proof stream.
RunThmsDone ==
  /\ pc = "thms" /\ ti = Len(env.thms)
  /\ fixups' = CommitVal(
                 CommitVal(fixups, "thm_header", toks["thm_header"].pos,
                           toks["thm_header"].buf),
                 "p_proof", toks["p_proof"].pos, LE(pos, 8))
  /\ toks' = [toks EXCEPT !["thm_header"].st = "done", !["p_proof"].st = "done"]
  /\ pc' = "stmts"
  /\ ti' = 0
  /\ vec' = <<>>
  /\ imap' = <<>>
  /\ UNCHANGED <<env, index, w, wcur, pos, fi>>

\* The bytes put in the scratch buffer for the declaration of atom a, and
\* its command byte.
DeclBody(e, a) ==
  IF IsTermAtom(e, a)
  THEN LET td == e.terms[TermOfAtom(e, a)]
       IN  IF td.def THEN ProofBytes(DefBody(td.val).out) \o <<0>> ELSE <<>>
  ELSE LET td == e.thms[ThmOfAtom(e, a)]
       IN  (IF td.axiom THEN ProofBytes(AxiomBody(td.stmt).out)
            ELSE ProofBytes(ThmBody(td.proof, ThmArgs(e)).out)) \o <<0>>

DeclCmd(e, a) ==
  IF IsTermAtom(e, a)
  THEN LET td == e.terms[TermOfAtom(e, a)]
       IN  IF td.def THEN StmtOp("Def", td.local) ELSE StmtOp("Term", FALSE)
  ELSE LET td == e.thms[ThmOfAtom(e, a)]
       IN  IF td.axiom THEN StmtOp("Axiom", FALSE) ELSE StmtOp("Thm", ~td.pub)

\* One turn of the loop over the declaration trace.
RunStmt ==
  /\ pc = "stmts" /\ ti < Len(env.stmts)
  /\ LET s == env.stmts[ti + 1]
         buf == vec \o DeclBody(env, s.a)
         out == CASE s.k = "Sort" -> write_cmd_bytes(StmtOp("Sort", FALSE), <<>>)
                  [] s.k = "Decl" ->
                       IF IsTermAtom(env, s.a) /\ ~env.terms[TermOfAtom(env, s.a)].def
                       THEN write_cmd_bytes(DeclCmd(env, s.a), <<>>)
                       ELSE write_cmd_bytes(DeclCmd(env, s.a), buf)
                  [] OTHER -> <<>>
     IN  /\ imap' = IF index /\ s.k \in {"Sort", "Decl"}
                    THEN Append(imap, [sort |-> s.k = "Sort", a |-> s.a, cmd |-> pos])
                    ELSE imap
         /\ vec' = IF s.k = "Decl" /\ DeclBody(env, s.a) # <<>>
                   THEN VecClear(buf) ELSE vec
         /\ w' = SinkWrite(w, wcur, out)
         /\ wcur' = wcur + Len(out)
         /\ pos' = pos + Len(out)
  /\ ti' = ti + 1
  /\ UNCHANGED <<env, index, pc, fixups, toks, fi>>

\* ----------------------------------------------------------------- index

\* The order of names: byte strings compared as slices.
RECURSIVE NameLeq(_, _)
NameLeq(a, b) ==
  IF a = <<>> THEN TRUE
  ELSE IF b = <<>> THEN FALSE
  ELSE IF Head(a) # Head(b) THEN Head(a) < Head(b)
  ELSE NameLeq(Tail(a), Tail(b))

\* sort_unstable_by_key on the names: the entries in the order of their
\* names, entries of one name in either order (a name has at most a sort
\* and a declaration).
RECURSIVE InsertByName(_, _)
InsertByName(sorted, e) ==
  IF sorted = <<>> THEN <<e>>
  ELSE IF NameLeq(AtomName(Head(sorted).a), AtomName(e.a))
       THEN <<Head(sorted)>> \o InsertByName(Tail(sorted), e)
       ELSE <<e>> \o sorted

RECURSIVE SortByName(_)
SortByName(m) ==
  IF m = <<>> THEN <<>>
  ELSE InsertByName(SortByName(SubSeq(m, 1, Len(m) - 1)), m[Len(m)])

SortResults(m) ==
  LET s == SortByName(m)
      eq == {i \in 1..(Len(s) - 1) : s[i].a = s[i + 1].a}
  IN  {[i \in 1..Len(s) |->
          IF i \in F THEN s[i + 1] ELSE IF (i - 1) \in F THEN s[i - 1] ELSE s[i]]
        : F \in SUBSET eq}

\* The position of the span of an entry: to_pos of its start when the span
\* lies in the exported file and the source text is there, else the default.
SpanPos(e, t) ==
  IF e.source THEN [line |-> t.a + 1, character |-> IF t.sort THEN 5 ELSE 4]
  ELSE [line |-> 0, character |-> 0]

\* The slot of an entry in the index header, after the root.
IndexSlot(e, t) ==
  IF t.sort THEN SortOfAtom(e, t.a)
  ELSE IF IsTermAtom(e, t.a) THEN Len(e.sorts) + TermOfAtom(e, t.a)
  ELSE Len(e.sorts) + Len(e.terms) + ThmOfAtom(e, t.a)

\* The ix field of an entry: the id of the sort, term or theorem.
IndexIx(e, t) ==
  IF t.sort THEN SortOfAtom(e, t.a) - 1
  ELSE IF IsTermAtom(e, t.a) THEN TermOfAtom(e, t.a) - 1
  ELSE ThmOfAtom(e, t.a) - 1

\* write_index_entry, on x = [out, pos, hdr, ret]: the bytes written since
\* the start of the index, the position, the header buffer, and the result.
write_index_entry(x, e, il, ir, t) ==
  LET pad == Zeros(AlignPad(x.pos, 8))
      n == x.pos + Len(pad)
      sp == SpanPos(e, t)
      k == IF t.sort THEN StmtOp("Sort", FALSE) ELSE DeclCmd(e, t.a)
      rec == LE(il, 8) \o LE(ir, 8) \o LE(sp.line, 4) \o LE(sp.character, 4)
               \o LE(t.cmd, 8) \o LE(IndexIx(e, t), 4) \o <<k>>
               \o AtomName(t.a) \o <<0>>
  IN  [out |-> x.out \o pad \o rec,
       pos |-> n + Len(rec),
       hdr |-> SetSlot(x.hdr, IndexSlot(e, t), LE(n, 8)),
       ret |-> n]

\* write_index with an empty map: the entries of `left` chained by their
\* right pointers, the last one written first.
IndexChainDropped(x, e, left) == [x EXCEPT !.ret = 0]
RECURSIVE IndexChainFrom(_, _, _, _)
IndexChainFrom(x, e, left, k) ==
  IF k < 1 THEN x
  ELSE IndexChainFrom(write_index_entry(x, e, 0, x.ret, left[k]), e, left, k - 1)
IndexChain(x, e, left) == IndexChainFrom([x EXCEPT !.ret = 0], e, left, Len(left))

\* The run of entries of atom a around lo (from 0): its first index, and
\* the index after its last.
RECURSIVE IndexLo(_, _, _)
IndexLo(map, a, lo) ==
  IF lo >= 1 /\ map[lo].a = a THEN IndexLo(map, a, lo - 1) ELSE lo
RECURSIVE IndexHi(_, _, _)
IndexHi(map, a, hi) ==
  IF hi < Len(map) /\ map[hi + 1].a = a THEN IndexHi(map, a, hi + 1) ELSE hi

RECURSIVE write_index(_, _, _, _)
write_index(x, e, left, map) ==
  IF Len(map) \div 2 >= Len(map) THEN IndexChain(x, e, left)
  ELSE LET mid == Len(map) \div 2
           a == map[mid + 1].a
           lo == IndexLo(map, a, mid)
           hi == IndexHi(map, a, mid + 1)
           xl == write_index(x, e, left, SubSeq(map, 1, lo))
           xr == write_index(xl, e, SubSeq(map, lo + 2, hi), SubSeq(map, hi + 1, Len(map)))
       IN  write_index_entry(xr, e, xl.ret, xr.ret, map[lo + 1])

\* self.write_u32(0) without an index: the padding.
PaddingWide == LE(0, 8)
Padding == LE(0, 4)

\* The end of run: the terminator of the proof stream, then the index or
\* the padding.
RunEnd ==
  /\ pc = "stmts" /\ ti = Len(env.stmts)
  /\ IF index
     THEN \E sorted \in SortResults(imap) :
            LET pad == Zeros(AlignPad(pos + 1, 8))
                at == pos + 1 + Len(pad)
                size == 8 * (1 + Len(env.sorts) + Len(env.terms) + Len(env.thms))
                x == write_index([out |-> <<>>, pos |-> at + size,
                                  hdr |-> Zeros(size), ret |-> 0],
                                 env, <<>>, sorted)
                out == <<0>> \o pad \o FixupZeros(size) \o x.out
            IN  /\ imap' = sorted
                /\ fixups' = CommitVal(
                               CommitVal(fixups, "p_index", toks["p_index"].pos,
                                         LE(at, 8)),
                               "index_header", at, SetSlot(x.hdr, 0, LE(x.ret, 8)))
                /\ toks' = [toks EXCEPT
                              !["p_index"].st = "done",
                              !["index_header"] =
                                Tok("done", at, size, SetSlot(x.hdr, 0, LE(x.ret, 8)))]
                /\ w' = SinkWrite(w, wcur, out)
                /\ wcur' = wcur + Len(out)
                /\ pos' = pos + Len(out)
     ELSE /\ toks' = [toks EXCEPT !["p_index"].st = "cancelled"]
          /\ w' = SinkWrite(w, wcur, <<0>> \o Padding)
          /\ wcur' = wcur + 1 + Len(Padding)
          /\ pos' = pos + 1 + Len(Padding)
          /\ UNCHANGED <<imap, fixups>>
  /\ pc' = "ran"
  /\ UNCHANGED <<env, index, ti, vec, fi>>

\* ---------------------------------------------------------------- finish

\* finish: one turn of the loop over the fixups, seek and write_all. finish
\* takes the exporter whatever run returned: "failed" is an exporter whose
\* run returned an error.
FinishFixup ==
  /\ pc \in {"ran", "finish", "failed", "refinish"} /\ fi < Len(fixups)
  /\ LET f == fixups[fi + 1]
     IN  /\ w' = SinkWrite(w, f.pos, f.val)
         /\ wcur' = f.pos + Len(f.val)
  /\ fi' = fi + 1
  /\ pc' = IF pc \in {"failed", "refinish"} THEN "refinish" ELSE "finish"
  /\ UNCHANGED <<env, index, pos, fixups, toks, ti, vec, imap>>

\* finish: the flush after the last fixup, and Ok.
FinishFlush ==
  /\ pc \in {"ran", "finish", "failed", "refinish"} /\ fi = Len(fixups)
  /\ pc' = IF pc \in {"failed", "refinish"} THEN "finished_after_error"
           ELSE "finished"
  /\ UNCHANGED <<env, index, w, wcur, pos, fixups, toks, ti, vec, imap, fi>>

\* ------------------------------------------------------------ I/O errors

\* The length of the buffer of the next write_all of run, -1 when the step
\* at pc writes nothing.
NextWrite ==
  CASE pc = "start" -> Len(Magic)
    [] pc = "terms" -> AlignPad(pos, 8)
    [] pc = "thms" /\ ti < Len(env.thms) -> AlignPad(pos, 8)
    [] pc = "stmts" /\ ti = Len(env.stmts) -> 1
    [] pc = "stmts" /\ ti < Len(env.stmts)
         /\ env.stmts[ti + 1].k \in {"Sort", "Decl"} -> 1
    [] OTHER -> 0 - 1

\* write_all of the exporter when the sink fails: pos is advanced, the sink
\* takes nothing, and run returns the error at once.
RunFail ==
  /\ NextWrite >= 0
  /\ pos' = pos + NextWrite
  /\ pc' = "failed"
  /\ UNCHANGED <<env, index, w, wcur, fixups, toks, ti, vec, imap, fi>>

\* finish when a seek, a write or the flush fails: it returns the error.
FinishFail ==
  /\ pc \in {"ran", "finish", "failed", "refinish"}
  /\ pc' = "finish_failed"
  /\ UNCHANGED <<env, index, w, wcur, pos, fixups, toks, ti, vec, imap, fi>>

\* ------------------------------------------------------- run, as a system

Min(a, b) == IF a < b THEN a ELSE b

RunStart(e, ix) ==
  /\ env = e
  /\ index = ix
  /\ pc = "start"
  /\ w = <<>>
  /\ wcur = 0
  /\ pos = 0
  /\ fixups = <<>>
  /\ toks = NoToks
  /\ ti = 0
  /\ vec = <<>>
  /\ imap = <<>>
  /\ fi = 0

RunIdle ==
  /\ env = MkEnv(0, <<>>, <<>>, 0, FALSE)
  /\ index = FALSE
  /\ pc = "idle"
  /\ w = <<>>
  /\ wcur = 0
  /\ pos = 0
  /\ fixups = <<>>
  /\ toks = NoToks
  /\ ti = 0
  /\ vec = <<>>
  /\ imap = <<>>
  /\ fi = 0

\* n shapes out of 1..m, from shape k on.
ShapesFrom(k, n, m) == [i \in 1..n |-> 1 + ((k + i - 2) % m)]

\* Exporter::new on a small environment with terms and theorems of every shape.
RunInit ==
  \E ns \in 0..MaxSorts :
    \E nt \in 0..MaxTerms :
      \E tk \in TermShapes :
        \E nh \in 0..MaxThms :
          \E hk \in ThmShapes :
            \E sh \in 0..Min(1, Min(ns, nt + nh)) :
              \E extra \in BOOLEAN :
                \E ix \in BOOLEAN :
                  RunStart(MkEnv(ns, ShapesFrom(tk, nt, 4), ShapesFrom(hk, nh, 4),
                                 sh, extra), ix)

\* Exporter::new on an environment of many sorts and terms, for the index.
IndexInit ==
  \E ns \in 0..MaxIxSorts :
    \E nt \in 0..MaxIxTerms :
      \E nh \in 0..1 :
        \E sh \in 0..Min(ns, nt) :
          \E extra \in BOOLEAN :
            RunStart(MkEnv(ns, [i \in 1..nt |-> 1 + 2 * (i % 2)],
                           [i \in 1..nh |-> 1], sh, extra), TRUE)

\* ------------------------------------------------------------- BigBuffer

\* mem::take(self.buffer.get_mut()): what is left in the buffer.
BufKept(b) == b
BufTaken(b) == <<>>

BufIdle ==
  /\ bbBuf = <<>>
  /\ bbCur = 0
  /\ bbSink = <<>>
  /\ bbState = "idle"

\* BigBuffer::new
BufInit ==
  /\ bbBuf = <<>>
  /\ bbCur = 0
  /\ bbSink = <<>>
  /\ bbState = "live"

BufChunks == {<<1>>, <<2, 3>>}

\* Write::write: the write of the cursor over the vector.
BufWrite ==
  /\ bbState = "live"
  /\ \E bytes \in BufChunks :
       /\ bbCur + Len(bytes) <= MaxBuf
       /\ bbBuf' = SinkWrite(bbBuf, bbCur, bytes)
       /\ bbCur' = bbCur + Len(bytes)
  /\ UNCHANGED <<bbSink, bbState>>

\* Seek::seek, from the start.
BufSeek ==
  /\ bbState = "live"
  /\ \E p \in 0..MaxBuf : bbCur' = p
  /\ UNCHANGED <<bbBuf, bbSink, bbState>>

\* finish: the content taken out of the buffer goes to the writer; the
\* buffer is destroyed at the end of finish, and gives what it holds then.
BufFinish ==
  /\ bbState = "live"
  /\ bbSink' = bbSink \o <<bbBuf, BufTaken(bbBuf)>>
  /\ bbBuf' = BufTaken(bbBuf)
  /\ bbState' = "finished"
  /\ UNCHANGED bbCur

\* Drop of a buffer that was not finished.
BufDrop ==
  /\ bbState = "live"
  /\ bbSink' = Append(bbSink, bbBuf)
  /\ bbState' = "dropped"
  /\ UNCHANGED <<bbBuf, bbCur>>

\* ------------------------------------------------- serializers, as a system

SerIdle ==
  /\ sIn = Decl("none", 0, <<>>, <<>>, Dummy(0))
  /\ sMode = "idle"
  /\ sOut = SerInit(0, 0)

SerInitState ==
  /\ \/ \E na \in 0..MaxArgs, k \in 0..MaxSlots :
          \E h \in ExprHeaps(na, na + k) :
            \/ \E x \in HeadNodes(na + k) : sIn = Decl("def", na, h, <<>>, x)
            \/ \E x \in SlotNodes(na + k), hs \in HypLists(na + k) :
                 sIn = Decl("stmt", na, h, hs, x)
     \/ \E na \in 0..MaxArgs, nh \in 0..MaxHyps, k \in 0..MaxSlots :
          \E h \in ProofHeaps(na, nh, k) :
            \E x \in ProofHeads(na, h) :
              sIn = Decl("proof", na, h, [j \in 1..nh |-> Ref(na + j - 1)], x)
  /\ sMode = "input"
  /\ sOut = SerInit(0, 0)

SerTermUnify ==
  /\ sMode = "input" /\ sIn.kind = "def"
  /\ sOut' = TermUnify(sIn)
  /\ sMode' = "unify"
  /\ UNCHANGED sIn

SerDef ==
  /\ sMode = "input" /\ sIn.kind = "def"
  /\ sOut' = DefBody(sIn)
  /\ sMode' = "expr"
  /\ UNCHANGED sIn

SerThmUnify ==
  /\ sMode = "input" /\ sIn.kind = "stmt"
  /\ sOut' = ThmUnify(sIn)
  /\ sMode' = "unify"
  /\ UNCHANGED sIn

SerAxiom ==
  /\ sMode = "input" /\ sIn.kind = "stmt"
  /\ sOut' = AxiomBody(sIn)
  /\ sMode' = "expr"
  /\ UNCHANGED sIn

SerThm ==
  /\ sMode = "input" /\ sIn.kind = "proof"
  /\ sOut' = ThmBody(sIn, SerThmArgs)
  /\ sMode' = "proof"
  /\ UNCHANGED sIn

\* ---------------------------------------------- write_binders, as a system

BindIdle ==
  /\ bBv = One64 /\ bI = 0 /\ bK = 0 /\ bState = "idle"
  /\ bLast = [ty |-> Reg(0, Zero64), word |-> <<>>]

\* let mut bv = 1;
BindInitState ==
  /\ bBv = One64 /\ bI = 0 /\ bK = 0 /\ bState = "run"
  /\ bLast = [ty |-> Reg(0, Zero64), word |-> <<>>]

\* The sorts and the dependency masks of the binders tried.
BindSorts == {0, 1, 127}
BindDeps == {Zero64, One64, [k \in 1..8 |-> IF k = 7 THEN 64 ELSE 0]}

\* One binder of the argument list: Type::Bound(s) or Type::Reg(s, deps).
BindArg(ty) ==
  /\ bState = "run" /\ bI < MaxBinders
  /\ LET r == BinderStep(bBv, ty)
     IN  /\ bBv' = r.bv
         /\ bLast' = [ty |-> ty, word |-> r.word]
         /\ bState' = IF r.panic THEN "panic" ELSE "run"
         /\ bK' = IF ty.bound /\ ~r.panic THEN bK + 1 ELSE bK
         /\ bI' = bI + 1

BindBound == \E s \in BindSorts : BindArg(Bound(s))
BindReg == \E s \in BindSorts, d \in BindDeps : BindArg(Reg(s, d))

\* The end of the argument list: Ok(()).
BindDone ==
  /\ bState = "run"
  /\ bState' = "done"
  /\ UNCHANGED <<bBv, bI, bK, bLast>>

\* --------------------------------------------------------- specifications

SerNext ==
  \/ SerTermUnify /\ UNCHANGED <<bindVars, runVars, bufVars>>
  \/ SerDef /\ UNCHANGED <<bindVars, runVars, bufVars>>
  \/ SerThmUnify /\ UNCHANGED <<bindVars, runVars, bufVars>>
  \/ SerAxiom /\ UNCHANGED <<bindVars, runVars, bufVars>>
  \/ SerThm /\ UNCHANGED <<bindVars, runVars, bufVars>>

InitSer == SerInitState /\ BindIdle /\ RunIdle /\ BufIdle

SpecSer == InitSer /\ [][SerNext]_vars

BindNext ==
  \/ BindBound /\ UNCHANGED <<serVars, runVars, bufVars>>
  \/ BindReg /\ UNCHANGED <<serVars, runVars, bufVars>>
  \/ BindDone /\ UNCHANGED <<serVars, runVars, bufVars>>

InitBinders == BindInitState /\ SerIdle /\ RunIdle /\ BufIdle

SpecBinders == InitBinders /\ [][BindNext]_vars

Next ==
  \/ RunHeader /\ UNCHANGED <<serVars, bindVars, bufVars>>
  \/ RunTerm /\ UNCHANGED <<serVars, bindVars, bufVars>>
  \/ RunTermsDone /\ UNCHANGED <<serVars, bindVars, bufVars>>
  \/ RunThm /\ UNCHANGED <<serVars, bindVars, bufVars>>
  \/ RunThmsDone /\ UNCHANGED <<serVars, bindVars, bufVars>>
  \/ RunStmt /\ UNCHANGED <<serVars, bindVars, bufVars>>
  \/ RunEnd /\ UNCHANGED <<serVars, bindVars, bufVars>>
  \/ FinishFixup /\ UNCHANGED <<serVars, bindVars, bufVars>>
  \/ FinishFlush /\ UNCHANGED <<serVars, bindVars, bufVars>>

Init == RunInit /\ SerIdle /\ BindIdle /\ BufIdle

Spec == Init /\ [][Next]_vars

InitIndex == IndexInit /\ SerIdle /\ BindIdle /\ BufIdle

SpecIndex == InitIndex /\ [][Next]_vars

\* run and finish over a sink whose writes may fail.
NextIo ==
  \/ RunHeader /\ UNCHANGED <<serVars, bindVars, bufVars>>
  \/ RunTerm /\ UNCHANGED <<serVars, bindVars, bufVars>>
  \/ RunTermsDone /\ UNCHANGED <<serVars, bindVars, bufVars>>
  \/ RunThm /\ UNCHANGED <<serVars, bindVars, bufVars>>
  \/ RunThmsDone /\ UNCHANGED <<serVars, bindVars, bufVars>>
  \/ RunStmt /\ UNCHANGED <<serVars, bindVars, bufVars>>
  \/ RunEnd /\ UNCHANGED <<serVars, bindVars, bufVars>>
  \/ FinishFixup /\ UNCHANGED <<serVars, bindVars, bufVars>>
  \/ FinishFlush /\ UNCHANGED <<serVars, bindVars, bufVars>>
  \/ RunFail /\ UNCHANGED <<serVars, bindVars, bufVars>>
  \/ FinishFail /\ UNCHANGED <<serVars, bindVars, bufVars>>

SpecIo == Init /\ [][NextIo]_vars

BufNext ==
  \/ BufWrite /\ UNCHANGED <<serVars, bindVars, runVars>>
  \/ BufSeek /\ UNCHANGED <<serVars, bindVars, runVars>>
  \/ BufFinish /\ UNCHANGED <<serVars, bindVars, runVars>>
  \/ BufDrop /\ UNCHANGED <<serVars, bindVars, runVars>>

InitBuf == BufInit /\ SerIdle /\ BindIdle /\ RunIdle

SpecBuf == InitBuf /\ [][BufNext]_vars

\* ------------------------------------------------ claims: the serializers

Ran == sMode # "input"
SlotsOf(d) == {i \in 0..(Len(d.heap) - 1) : i >= d.nargs}
EvAt(i, ks) == {p \in DOMAIN sOut.ev : sOut.ev[p].i = i /\ sOut.ev[p].k \in ks}
RefOps == {"Ref", "ConvRef"}

\* The inputs tried are well formed: no serializer reaches an unreachable!().
SerWellFormed == ~sOut.panic

\* What holds of a slot that is recorded in the map when first referenced:
\* one expansion, one binding, and after the binding only reference opcodes,
\* each carrying the bound n.
SharedOnce(i) ==
  /\ Cardinality(EvAt(i, {"visit"})) = 1
  /\ Cardinality(EvAt(i, {"bind"})) = 1
  /\ EvAt(i, {"inline"}) = {}
  /\ \A b \in EvAt(i, {"bind"}) :
       /\ \A v \in EvAt(i, {"visit"}) : v < b
       /\ sOut.map[i + 1] = Some(sOut.ev[b].n)
       /\ \A r \in EvAt(i, {"ref"}) :
            /\ b < r
            /\ sOut.ev[r].n = sOut.ev[b].n
            /\ sOut.out[sOut.ev[r].at].c \in RefOps
            /\ sOut.out[sOut.ev[r].at].n = sOut.ev[b].n

\* C2 as stated: in each of the three serializers every slot referenced more
\* than once through Ref(i) is expanded exactly once, and every later reference writes
\* only a reference opcode carrying the n recorded at the first emission.
C2_SharingAsClaimed ==
  Ran => \A i \in SlotsOf(sIn) :
           Cardinality(EvAt(i, {"visit", "inline", "ref"})) > 1 => SharedOnce(i)

\* C2 amended: the above holds in the unify stream, the expression proof
\* stream and the proof stream, and in the conversion stream for every slot
\* whose heap target is neither Refl nor Ref; a conversion slot whose target
\* is Refl or Ref is never recorded in the map: it is walked again at every
\* reference and never written as a reference opcode of its own.
C2_Sharing ==
  Ran => \A i \in SlotsOf(sIn) :
           EvAt(i, {"visit", "inline", "ref"}) # {} =>
             IF EvAt(i, {"inline"}) # {}
             THEN /\ sMode = "proof"
                  /\ sIn.heap[i + 1].t \in {"Refl", "Ref"}
                  /\ EvAt(i, {"visit", "bind", "ref"}) = {}
                  /\ sOut.map[i + 1] = NoneV
             ELSE SharedOnce(i)

\* A proof in which one slot is written in full once and then referenced both
\* by Ref and, for a conversion slot, by ConvRef.
C2_Witness ==
  /\ sMode = "proof"
  /\ \E i \in SlotsOf(sIn), r \in DOMAIN sOut.ev :
       /\ r \in EvAt(i, {"ref"}) /\ EvAt(i, {"visit"}) # {}
       /\ sOut.out[sOut.ev[r].at].c = "ConvRef"
  /\ \E i \in SlotsOf(sIn), r \in DOMAIN sOut.ev :
       /\ r \in EvAt(i, {"ref"}) /\ EvAt(i, {"visit"}) # {}
       /\ sOut.out[sOut.ev[r].at].c = "Ref"

\* C4: within one declaration the indices taken from idx are nargs, nargs+1,
\* ... in order, without gap or repetition, and every value recorded in the
\* map for a slot at or above nargs is one of them or an argument's index.
C4_Consecutive ==
  Ran =>
    /\ Len(sOut.given) = sOut.idx - sIn.nargs
    /\ \A k \in DOMAIN sOut.given : sOut.given[k] = sIn.nargs + k - 1
    /\ \A i \in SlotsOf(sIn) :
         sOut.map[i + 1] # NoneV =>
           sOut.map[i + 1][1] \in Range(sOut.given) \cup 0..(sIn.nargs - 1)
    /\ \A p \in DOMAIN sOut.ev :
         sOut.ev[p].k = "bind" =>
           sOut.ev[p].n \in Range(sOut.given) \cup 0..(sIn.nargs - 1)

\* A theorem body in which a hypothesis, a saved node and a ConvSave each
\* took an index.
C4_Witness ==
  /\ sMode = "proof" /\ sOut.hyps # <<>>
  /\ Len(sOut.given) >= 3
  /\ \E k \in DOMAIN sOut.out : sOut.out[k].c = "ConvSave"
  /\ \E k \in DOMAIN sOut.out : sOut.out[k].save

\* The commands written with save: a Term or Thm with the flag, or a Save.
SavedCmds ==
  {k \in DOMAIN sOut.out :
     \/ sOut.out[k].c \in {"Term", "Thm"} /\ sOut.out[k].save
     \/ sOut.out[k].c = "Save"}
CmdsOf(cs) == {k \in DOMAIN sOut.out : sOut.out[k].c \in cs}

\* The first visits of a slot whose heap target is a node that can be saved.
Savable == {"App", "Term", "Thm", "Conv"}
SavableVisits ==
  {p \in DOMAIN sOut.ev :
     sOut.ev[p].k = "visit" /\ sIn.heap[sOut.ev[p].i + 1].t \in Savable}
SavableBinds ==
  {p \in DOMAIN sOut.ev :
     sOut.ev[p].k = "bind" /\ sIn.heap[sOut.ev[p].i + 1].t \in Savable}

\* C13: in write_expr_proof and write_proof there is one command written
\* with save (a Term or Thm with save=true, or a Save after a Conv) for each
\* first visit of an unassigned Ref(i) whose heap target is a Term, Thm or
\* Conv node, and no other; a Term, Thm or Conv reached as a child or as the
\* head takes no index: the indices taken are those of the saved commands,
\* the Dummy commands, the ConvSave commands and the hypotheses; the head is
\* written without save; and the value bound to such a slot is an index
\* taken from idx at or above nargs, a different one for each slot.
C13_SaveFlag ==
  sMode \in {"expr", "proof"} =>
    /\ Cardinality(SavedCmds) = Cardinality(SavableVisits)
    /\ Len(sOut.given)
         = Cardinality(SavedCmds) + Cardinality(CmdsOf({"Dummy", "ConvSave"}))
             + Len(sOut.hyps)
    /\ sIn.head.t \in Savable =>
         /\ sOut.out[Len(sOut.out)].c # "Save"
         /\ ~sOut.out[Len(sOut.out)].save
         /\ sOut.ret = 0
    /\ \A b \in SavableBinds :
         /\ sOut.ev[b].n \in Range(sOut.given)
         /\ sOut.ev[b].n >= sIn.nargs
         /\ \A c \in SavableBinds : sOut.ev[c].n = sOut.ev[b].n => c = b

C13_Witness ==
  /\ sMode = "proof" /\ sIn.nargs > 0
  /\ \E k \in DOMAIN sOut.out : sOut.out[k].c = "Save"
  /\ \E k \in DOMAIN sOut.out : sOut.out[k].c \in {"Term", "Thm"} /\ sOut.out[k].save
  /\ \E k \in DOMAIN sOut.out : sOut.out[k].c \in {"Term", "Thm"} /\ ~sOut.out[k].save

C13_WitnessExpr ==
  /\ sMode = "expr" /\ sIn.nargs > 0
  /\ \E k \in DOMAIN sOut.out : sOut.out[k].c = "Term" /\ sOut.out[k].save
  /\ \E k \in DOMAIN sOut.out : sOut.out[k].c = "Term" /\ ~sOut.out[k].save

\* The unify stream after the top-level call for the statement (j = 0) and
\* after the calls for the last j hypotheses.
RECURSIVE UnifyAfter(_, _)
UnifyAfter(d, j) ==
  IF j = 0 THEN write_expr_unify(SerInit(d.nargs, Len(d.heap)), d.heap, d.head)
  ELSE write_expr_unify(Emit(UnifyAfter(d, j - 1), Cmd("Hyp", 0, FALSE)),
                        d.heap, d.hyps[Len(d.hyps) - j + 1])

\* The unify commands that take an index, and the one that took index n.
UnifyTakers ==
  {k \in DOMAIN sOut.out :
     \/ sOut.out[k].c = "Dummy"
     \/ sOut.out[k].c = "Term" /\ sOut.out[k].save}
UnifyTaker(n) ==
  {k \in UnifyTakers :
     \E j \in DOMAIN sOut.given :
       /\ sOut.given[j] = n
       /\ Cardinality({l \in UnifyTakers : l <= k}) = j}

\* The first event after the expansion at v that is not another expansion:
\* where the chain of unassigned references starting at v ended.
ChainEnds(v) ==
  {q \in (v + 1)..Len(sOut.ev) :
     /\ sOut.ev[q].k # "visit"
     /\ \A r \in (v + 1)..(q - 1) : sOut.ev[r].k = "visit"}

\* The node a chain of references ends at.
RECURSIVE ChainTarget(_, _)
ChainTarget(node, heap) ==
  IF node.t = "Ref" THEN ChainTarget(heap[node.a + 1], heap) ELSE node

\* What holds of the pending slot pushed at v: it is bound once, by the
\* commit at the end of its chain; to the n of the Ref written there when
\* the chain ends at an assigned Ref, and otherwise to the index taken by the
\* Dummy or by the Term written with save for the node the chain ends at.
PendingBound(v) ==
  LET i == sOut.ev[v].i
      t == ChainTarget(Ref(i), sIn.heap)
  IN  /\ Cardinality(EvAt(i, {"visit"})) = 1
      /\ Cardinality(EvAt(i, {"bind"})) = 1
      /\ ChainEnds(v) # {}
      /\ \A q \in ChainEnds(v), b \in EvAt(i, {"bind"}) :
           /\ q <= b + (IF sOut.ev[q].k = "ref" THEN 0 - 1 ELSE 0)
           /\ \A r \in (q + 1)..b : sOut.ev[r].k = "bind"
           /\ sOut.map[i + 1] = Some(sOut.ev[b].n)
           /\ IF sOut.ev[q].k = "ref"
              THEN /\ sOut.ev[b].n = sOut.ev[q].n
                   /\ sOut.out[sOut.ev[q].at] = Cmd("Ref", sOut.ev[q].n, FALSE)
              ELSE /\ sOut.ev[q].k = "bind"
                   /\ sOut.ev[b].n >= sIn.nargs
                   /\ Cardinality(UnifyTaker(sOut.ev[b].n)) = 1
                   /\ \A k \in UnifyTaker(sOut.ev[b].n) :
                        sOut.out[k] = IF t.t = "App" THEN Cmd("Term", t.a, TRUE)
                                      ELSE Cmd("Dummy", t.a, FALSE)

\* C14: in write_expr_unify a Term is written with save exactly for an App
\* reached with pending slots: every pending slot is bound, once, at the end
\* of its chain of references, to the index taken by that Term (or Dummy) or
\* to the n of the assigned Ref reached, which takes no index; every Term
\* written with save binds a pending slot; the indices taken are those of
\* the Dummy commands and of the Terms written with save, one each; and the
\* call for the statement and the call for each hypothesis return with the
\* accumulator empty.
C14_Accumulator ==
  sMode = "unify" =>
    /\ \A v \in DOMAIN sOut.ev : sOut.ev[v].k = "visit" => PendingBound(v)
    /\ \A k \in UnifyTakers :
         sOut.out[k].c = "Term" =>
           \E v \in DOMAIN sOut.ev, j \in DOMAIN sOut.given :
             /\ sOut.ev[v].k = "visit"
             /\ k \in UnifyTaker(sOut.given[j])
             /\ \E q \in ChainEnds(v) :
                  sOut.ev[q].k = "bind" /\ sOut.ev[q].n = sOut.given[j]
    /\ Len(sOut.given) = Cardinality(UnifyTakers)
    /\ \A j \in 0..Len(sIn.hyps) : UnifyAfter(sIn, j).save = <<>>
    /\ UnifyAfter(sIn, Len(sIn.hyps)) = sOut

\* A theorem statement with a hypothesis in which two slots are pending at
\* once, a Term is written with save and another without.
C14_Witness ==
  /\ sMode = "unify" /\ sIn.kind = "stmt" /\ Len(sIn.hyps) > 0
  /\ \E k \in DOMAIN sOut.out : sOut.out[k].c = "Term" /\ sOut.out[k].save
  /\ \E k \in DOMAIN sOut.out : sOut.out[k].c = "Term" /\ ~sOut.out[k].save
  /\ \E v \in DOMAIN sOut.ev :
       /\ v > 1 /\ sOut.ev[v].k = "visit" /\ sOut.ev[v - 1].k = "visit"

\* A theorem statement with a hypothesis in which a pending slot is bound to
\* the n of an assigned Ref.
C14_WitnessRef ==
  /\ sMode = "unify" /\ sIn.kind = "stmt" /\ Len(sIn.hyps) > 0
  /\ \E v \in DOMAIN sOut.ev :
       /\ sOut.ev[v].k = "visit"
       /\ \E q \in ChainEnds(v) : sOut.ev[q].k = "ref"

\* The proof commands that take an index, and the one that took index n.
ProofTakers ==
  {k \in DOMAIN sOut.out :
     \/ sOut.out[k].c \in {"Dummy", "Hyp", "Save", "ConvSave"}
     \/ sOut.out[k].c \in {"Term", "Thm"} /\ sOut.out[k].save}
ProofTaker(n) ==
  {k \in ProofTakers :
     \E j \in DOMAIN sOut.given :
       /\ sOut.given[j] = n
       /\ Cardinality({l \in ProofTakers : l <= k}) = j}

\* The ConvCut that the ConvSave at k closes: the last one before k with as
\* many ConvCut as ConvSave strictly between.
ConvCutOf(k) ==
  {c \in 1..(k - 1) :
     /\ sOut.out[c].c = "ConvCut"
     /\ Cardinality({l \in (c + 1)..(k - 1) : sOut.out[l].c = "ConvCut"})
          = Cardinality({l \in (c + 1)..(k - 1) : sOut.out[l].c = "ConvSave"})
     /\ \A d \in (c + 1)..(k - 1) :
          Cardinality({l \in (c + 1)..d : sOut.out[l].c = "ConvSave"})
            <= Cardinality({l \in (c + 1)..d : sOut.out[l].c = "ConvCut"})}

\* The slots of a proof heap that hold a conversion.
ConvSlots ==
  {i \in SlotsOf(sIn) : KindOf(sIn.nargs, sIn.heap, Ref(i)) = "c"}

\* What holds of a conversion slot that is cut and saved: one expansion and
\* one binding; the value bound is the index taken by a ConvSave, which
\* closes a ConvCut followed by the conversion of the target; every other
\* reference is a ConvRef carrying that value.
CutAndSaved(i) ==
  /\ Cardinality(EvAt(i, {"visit"})) = 1
  /\ Cardinality(EvAt(i, {"bind"})) = 1
  /\ \A b \in EvAt(i, {"bind"}) :
       LET n == sOut.ev[b].n
       IN  /\ sOut.map[i + 1] = Some(n)
           /\ n >= sIn.nargs
           /\ Cardinality(ProofTaker(n)) = 1
           /\ \A k \in ProofTaker(n) :
                /\ sOut.out[k].c = "ConvSave"
                /\ Cardinality(ConvCutOf(k)) = 1
                /\ \A c \in ConvCutOf(k) :
                     /\ sIn.heap[i + 1].t \in {"Sym", "Cong"} =>
                          sOut.out[c + 1].c = sIn.heap[i + 1].t
                     /\ sIn.heap[i + 1].t = "Unfold" =>
                          \E u \in (c + 1)..(k - 1) : sOut.out[u].c = "Unfold"
                     /\ \A r \in EvAt(i, {"ref"}) : sOut.ev[r].at > k
           /\ \A v \in EvAt(i, {"visit"}) : v < b
           /\ \A r \in EvAt(i, {"ref"}) :
                /\ b < r
                /\ sOut.out[sOut.ev[r].at] = Cmd("ConvRef", n, FALSE)

\* C15: in write_conv a referenced conversion slot whose target is neither
\* Refl nor Ref is written once as ConvCut, the conversion of the target,
\* ConvSave, and bound to the index that ConvSave takes; every later
\* reference writes only ConvRef(n); there are as many ConvCut and ConvSave
\* as such slots expanded; a conversion slot whose target is Refl or Ref is
\* walked in place at every reference and is never given a value in the map.
C15_ConvCut ==
  sMode = "proof" =>
    /\ \A i \in ConvSlots :
         IF sIn.heap[i + 1].t \in {"Refl", "Ref"}
         THEN /\ EvAt(i, {"visit", "bind", "ref"}) = {}
              /\ sOut.map[i + 1] = NoneV
         ELSE /\ EvAt(i, {"inline"}) = {}
              /\ EvAt(i, {"visit", "ref"}) # {} => CutAndSaved(i)
    /\ Cardinality(CmdsOf({"ConvCut"})) = Cardinality(CmdsOf({"ConvSave"}))
    /\ Cardinality(CmdsOf({"ConvSave"}))
         = Cardinality({i \in ConvSlots : EvAt(i, {"visit"}) # {}})

\* A proof in which one conversion slot is cut, saved and then referenced by
\* ConvRef, and another, whose target is Refl or Ref, is walked in place
\* more than once.
C15_Witness ==
  /\ sMode = "proof"
  /\ \E i \in ConvSlots :
       /\ sIn.heap[i + 1].t \notin {"Refl", "Ref"}
       /\ EvAt(i, {"visit"}) # {} /\ EvAt(i, {"ref"}) # {}
  /\ \E i \in ConvSlots :
       /\ sIn.heap[i + 1].t \in {"Refl", "Ref"}
       /\ Cardinality(EvAt(i, {"inline"})) > 1

\* ------------------------------------------------- claims: write_binders

\* 2^i as a u64.
Pow2x64(i) == [k \in 1..8 |-> IF k = (i \div 8) + 1 THEN 2 ^ (i % 8) ELSE 0]

\* C6: the i-th bound binder (from 0, bound binders only) is written as the
\* word with bit 63 set, the sort id in bits 62..56 and the mask 2^i; no mask
\* bit 55 or higher is ever set by a bound binder; at most 55 bound binders
\* are written, and the panic comes exactly at the 56th.
C6_BinderMask ==
  /\ bK <= 55
  /\ (bState = "panic") => (bK = 55 /\ bLast.ty.bound /\ bLast.word = <<>>)
  /\ (bState # "panic" /\ bI > 0 /\ bLast.ty.bound) =>
       /\ bK >= 1
       /\ SubSeq(bLast.word, 1, 7) = SubSeq(Pow2x64(bK - 1), 1, 7)
       /\ bLast.word[7] < 128
       /\ bLast.word[8] = 128 + bLast.ty.s
  /\ (bState # "panic" /\ bI > 0 /\ ~bLast.ty.bound) =>
       /\ SubSeq(bLast.word, 1, 7) = SubSeq(bLast.ty.deps, 1, 7)
       /\ bLast.word[8] = bLast.ty.s

\* A declaration with 55 bound binders and regular binders among them went
\* through, its last bound binder written with mask 2^54.
C6_Witness ==
  /\ bState = "done" /\ bK = 55 /\ bI > bK
  /\ bLast.ty.bound /\ bLast.word[7] = 64

\* The 56th bound binder was reached.
C6_WitnessPanic == bState = "panic"

\* ------------------------------------------------- claims on run and finish

RECURSIVE FromLE(_)
FromLE(bytes) == IF bytes = <<>> THEN 0 ELSE Head(bytes) + 256 * FromLE(Tail(bytes))

\* The byte of wb at offset off; -1 past the end.
ByteAt(wb, off) == IF off < Len(wb) THEN wb[off + 1] ELSE -1
\* n bytes of wb from offset off.
Bytes(wb, off, n) == [k \in 1..n |-> ByteAt(wb, off + k - 1)]
AllZero(bytes) == \A k \in 1..Len(bytes) : bytes[k] = 0
AlignUp(n) == ((n + 7) \div 8) * 8

\* The registry entries of a token, and the value committed for a pointer.
EntriesOf(name) == {i \in 1..Len(fixups) : fixups[i].tok = name}
Committed(name) == EntriesOf(name) # {}
Pointer(name) == FromLE(fixups[CHOOSE i \in EntriesOf(name) : TRUE].val)

\* The body offset in slot i (from 0) of a table buffer.
SlotAddr(buf, i) == FromLE(Bytes(buf, 8 * i + 4, 4))
SlotAddrs(name) ==
  {SlotAddr(toks[name].buf, i) : i \in 0..((Len(toks[name].buf) \div 8) - 1)}

RunReturned == pc \in {"ran", "finish", "finished"}

C3_OneEntryPerToken ==
  /\ \A name \in TokNames : Cardinality(EntriesOf(name)) <= 1
  /\ \A i \in 1..Len(fixups) :
       /\ fixups[i].pos = toks[fixups[i].tok].pos
       /\ Len(fixups[i].val) = toks[fixups[i].tok].size
  /\ RunReturned =>
       /\ {name \in TokNames : toks[name].st # "none"}
            = (TokNames \ {"index_header"})
                \cup (IF index THEN {"index_header"} ELSE {})
       /\ \A name \in TokNames :
            toks[name].st # "none" =>
              Cardinality(EntriesOf(name))
                = IF name = "p_index" /\ ~index THEN 0 ELSE 1

C3_Witness ==
  /\ pc = "ran" /\ ~index
  /\ toks["p_index"].st = "cancelled" /\ EntriesOf("p_index") = {}
  /\ Len(fixups) = 5
  /\ Len(env.terms) > 0 /\ Len(env.thms) > 0

\* The records of the proof stream of wb from offset off: command, payload,
\* offset, and the offset after the record.
RECURSIVE ParseStream(_, _, _)
ParseStream(wb, off, fuel) ==
  IF fuel = 0 \/ off >= Len(wb) THEN <<>>
  ELSE LET c == wb[off + 1]
       IN  IF c = 0 THEN <<>>
           ELSE LET wide == (c \div 64) = 2
                    hd == IF wide THEN 3 ELSE 2
                    len == IF wide THEN FromLE(Bytes(wb, off + 1, 2)) ELSE wb[off + 2]
                IN  <<[cmd |-> c % 64, payload |-> Bytes(wb, off + hd, len - hd),
                       at |-> off, next |-> off + len]>>
                      \o ParseStream(wb, off + len, fuel - 1)

\* The Sort and Decl entries of the trace, and the record of each.
Declared == SelectSeq(env.stmts, LAMBDA s : s.k \in {"Sort", "Decl"})
RecordOf(s) ==
  IF s.k = "Sort" THEN [cmd |-> StmtOp("Sort", FALSE), payload |-> <<>>]
  ELSE [cmd |-> DeclCmd(env, s.a), payload |-> DeclBody(env, s.a)]

\* C7: the scratch buffer is empty at the start of every declaration; when
\* run has returned the proof stream from p_proof holds one record for each
\* Sort and each Decl entry of the trace, in trace order, none for a Global
\* or OutputString entry, each record's payload being the bytes of its own
\* declaration, and one 0 byte after the last record, followed by the
\* padding or the aligned index.
C7_ProofStream ==
  /\ pc = "stmts" => vec = <<>>
  /\ RunReturned =>
       LET recs == ParseStream(w, Pointer("p_proof"), Len(env.stmts) + 1)
           end == IF recs = <<>> THEN Pointer("p_proof") ELSE recs[Len(recs)].next
       IN  /\ Len(recs) = Len(Declared)
           /\ \A i \in 1..Len(recs) :
                /\ recs[i].cmd = RecordOf(Declared[i]).cmd
                /\ recs[i].payload = RecordOf(Declared[i]).payload
           /\ ByteAt(w, end) = 0
           /\ IF index THEN Pointer("p_index") = AlignUp(end + 1)
              ELSE Len(w) = end + 1 + 4

C7_Witness ==
  /\ pc = "ran"
  /\ \E i \in 1..Len(env.stmts) : env.stmts[i].k = "Global"
  /\ \E i \in 1..Len(env.stmts) : env.stmts[i].k = "Sort"
  /\ Len(ParseStream(w, Pointer("p_proof"), Len(env.stmts) + 1)) = 3
  /\ \A i \in 2..3 :
       Len(ParseStream(w, Pointer("p_proof"), Len(env.stmts) + 1)[i].payload) > 1

\* The position after the block of slot i (from 1) of a table: the body
\* offset of the next slot, or for the last slot the pointer to the next
\* section.
NextOfTerm(i) ==
  IF i < Len(env.terms) THEN SlotAddr(toks["term_header"].buf, i)
  ELSE Pointer("p_thms")
NextOfThm(i) ==
  IF i < Len(env.thms) THEN SlotAddr(toks["thm_header"].buf, i)
  ELSE AlignUp(Pointer("p_proof"))

\* The block at addr: `words` 8-byte words, the unifier u, a 0 byte, and
\* nothing else before the next aligned position.
Terminated(addr, words, u, next) ==
  /\ Bytes(w, addr + 8 * words, Len(u)) = u
  /\ ByteAt(w, addr + 8 * words + Len(u)) = 0
  /\ next = AlignUp(addr + 8 * words + Len(u) + 1)

TermUnifier(t) == IF t.def THEN UnifyBytes(TermUnify(t.val).out) ELSE <<>>

C8_WitnessDef ==
  /\ pc = "finished"
  /\ Len(env.terms) > 0 /\ env.terms[1].def /\ Len(env.terms[1].args) > 0

\* The bytes of wb after the fixups fx from the k-th on were applied.
RECURSIVE ApplyFixups(_, _, _)
ApplyFixups(wb, fx, k) ==
  IF k > Len(fx) THEN wb
  ELSE ApplyFixups(SinkWrite(wb, fx[k].pos, fx[k].val), fx, k + 1)

Reverse(q) == [i \in 1..Len(q) |-> q[Len(q) + 1 - i]]

InRange(k, f) == k > f.pos /\ k <= f.pos + Len(f.val)

C9_State ==
  /\ pc \notin {"finish", "finished"} =>
       \A name \in TokNames :
         toks[name].st # "none" =>
           AllZero(Bytes(w, toks[name].pos, toks[name].size))
  /\ \A i \in 1..Len(fixups) : \A j \in 1..Len(fixups) :
       i # j => \/ fixups[i].pos + Len(fixups[i].val) <= fixups[j].pos
                \/ fixups[j].pos + Len(fixups[j].val) <= fixups[i].pos
  /\ pc = "ran" =>
       ApplyFixups(w, fixups, 1) = ApplyFixups(w, Reverse(fixups), 1)
  /\ pc = "finished" =>
       /\ \A i \in 1..Len(fixups) :
            Bytes(w, fixups[i].pos, Len(fixups[i].val)) = fixups[i].val
       /\ \A name \in TokNames :
            toks[name].st = "cancelled" =>
              AllZero(Bytes(w, toks[name].pos, toks[name].size))

C9_Step ==
  (pc \in {"ran", "finish"} /\ fi' = fi + 1) =>
    /\ Len(w') = Len(w)
    /\ \A k \in 1..Len(w) : ~InRange(k, fixups[fi + 1]) => w'[k] = w[k]

\* C9: the bytes of every fixup range are zero from the allocation until
\* finish runs; no two registry entries overlap, so the order in which
\* finish applies them does not matter; a turn of finish changes no byte
\* outside the range of its fixup; after finish every range holds the value
\* committed for it, and zero for a cancelled token.
C9_Fixups == [](C9_State) /\ [][C9_Step]_vars

C9_Witness ==
  /\ pc = "finished" /\ index
  /\ Len(fixups) = 7
  /\ Len(env.terms) > 0 /\ Len(env.thms) > 0
  /\ \A i \in 1..Len(fixups) : ~AllZero(fixups[i].val)

\* ---------------------------------------------------- claims on the index

\* The name at offset off of wb: the bytes before the first 0.
RECURSIVE NameAt(_, _, _)
NameAt(wb, off, fuel) ==
  IF fuel = 0 \/ off >= Len(wb) \/ wb[off + 1] = 0 THEN <<>>
  ELSE <<wb[off + 1]>> \o NameAt(wb, off + 1, fuel - 1)

\* The in-order walk of the tree of wb under the record at offset n: the
\* left subtree by the left pointer, the record, the right subtree by the
\* right pointer. 0 is the empty tree.
RECURSIVE InOrder(_, _, _)
InOrder(wb, n, fuel) ==
  IF n = 0 \/ fuel = 0 THEN <<>>
  ELSE InOrder(wb, FromLE(Bytes(wb, n, 8)), fuel - 1)
         \o <<[cmd |-> FromLE(Bytes(wb, n + 24, 8)),
               ix |-> FromLE(Bytes(wb, n + 32, 4)),
               k |-> wb[n + 37],
               name |-> NameAt(wb, n + 37, 8)]>>
         \o InOrder(wb, FromLE(Bytes(wb, n + 8, 8)), fuel - 1)

IndexRoot == FromLE(Bytes(toks["index_header"].buf, 0, 8))
IndexWalk == InOrder(w, IndexRoot, Len(env.stmts) + 1)

\* C5: when run has returned with an index, the in-order walk of the tree
\* from the root slot visits one record for each recorded Sort and Decl
\* entry, each entry once, and the names come in the order of a stable sort
\* of the declaration names, for every number of entries and also when a
\* sort and a declaration share a name.
C5_IndexInOrder ==
  (RunReturned /\ index) =>
    LET walk == IndexWalk
        names == [i \in 1..Len(walk) |-> walk[i].name]
        stable == SortByName(Declared)
    IN  /\ Len(walk) = Len(Declared)
        /\ names = [i \in 1..Len(stable) |-> AtomName(stable[i].a)]
        /\ Len(imap) = Len(Declared)
        /\ \A s \in Range(Declared) :
             \E i \in 1..Len(imap) :
               imap[i].sort = (s.k = "Sort") /\ imap[i].a = s.a
        /\ \A i \in 1..Len(walk) :
             /\ names[i] = AtomName(imap[i].a)
             /\ walk[i].cmd = imap[i].cmd
             /\ walk[i].ix = IndexIx(env, imap[i])
             /\ walk[i].k =
                  (IF imap[i].sort THEN StmtOp("Sort", FALSE)
                   ELSE DeclCmd(env, imap[i].a))
        /\ \A i \in 1..Len(walk) : \A j \in 1..Len(walk) :
             i < j => NameLeq(names[i], names[j])

C5_Witness ==
  /\ pc = "ran" /\ index
  /\ LET walk == IndexWalk
     IN  /\ Len(walk) >= 6
         /\ \E i \in 1..(Len(walk) - 1) :
              /\ walk[i].name = walk[i + 1].name
              /\ walk[i].k # walk[i + 1].k

\* ------------------------------------------------------ claims on BigBuffer

RECURSIVE Flatten(_)
Flatten(chunks) ==
  IF chunks = <<>> THEN <<>> ELSE Head(chunks) \o Flatten(Tail(chunks))

\* C10: when a live buffer is finished or dropped, the underlying writer
\* has received exactly the content of the buffer, once; the destruction of
\* a finished buffer gives the writer no further byte.
C10_Step ==
  /\ (bbState = "live" /\ bbState' # "live") => Flatten(bbSink') = bbBuf
  /\ bbState = "live" => bbSink = <<>>

C10_WrittenOnce == [][C10_Step]_vars

C10_Witness ==
  /\ bbState = "finished"
  /\ Len(bbSink) = 2 /\ Len(bbSink[1]) = MaxBuf /\ bbSink[2] = <<>>

C10_WitnessDrop ==
  /\ bbState = "dropped"
  /\ Len(bbSink) = 1 /\ Len(bbSink[1]) = MaxBuf

\* ----------------------------------------------- claims on the file's end

EmptyEnv ==
  Len(env.sorts) = 0 /\ Len(env.terms) = 0 /\ Len(env.thms) = 0

C11_WitnessFull ==
  /\ pc = "finished" /\ ~index
  /\ Len(env.sorts) > 0 /\ Len(env.terms) > 0 /\ Len(env.thms) > 0
  /\ FromLE(Bytes(w, 32, 8)) = 0

\* --------------------------------------------------- claims on I/O errors

\* C12 as the specification states it: when a write of run has failed, the
\* sink holds no byte beyond those written before the failure, and no call
\* of finish on that exporter returns Ok.
C12_ErrorAsClaimed ==
  /\ pc = "failed" => (wcur = Len(w) /\ Len(w) <= pos)
  /\ pc # "finished_after_error"

\* The part of C12 that holds: run returns the error at the failing write,
\* and the sink holds what was written before it.
C12_Propagated ==
  pc = "failed" => (wcur = Len(w) /\ Len(w) <= pos)

C12_Witness ==
  /\ pc = "finished_after_error"
  /\ Len(fixups) = 5 /\ fi = 5
  /\ ~index /\ EmptyEnv /\ Len(w) = 40
  /\ FromLE(Bytes(w, 24, 8)) = 40

====
